---------------------------- MODULE Spec2Model ----------------------------
(***************************************************************************)
(* Model of stalker/bluetooth.py (and the Event subclass of                *)
(* stalker/gatt.py): the packet codec (Packet / Command / Event), and the  *)
(* BluetoothDevice session with its owner calls (start, stop, join,        *)
(* _stop_reader), the command builders that put onto packet_queue, and the *)
(* reader and writer threads working on one serial transport.              *)
(***************************************************************************)
EXTENDS Integers, Sequences, FiniteSets, TLC

(***************************************************************************)
(* Bounds of the model.                                                    *)
(***************************************************************************)
\* calls of start() on a session that was started before
MaxRestarts == 1
\* inputs of the session: commands put by the caller's builders (beside the
\* init_device() of start()) and frame kind bytes the transport delivers
MaxInputs == 2
\* the same, in the specification with fairness
MaxFairInputs == 1
\* longest byte string of the codec's test packets
MaxStrLen == 2

\* inputs of a session that is started more than once
MaxRestartInputs == 1

(***************************************************************************)
(* Lookup tables of bluetooth.py.                                          *)
(***************************************************************************)
BLUETOOTH_EVENTS ==
    [c \in {5, 8, 12, 14, 15, 16, 19, 26, 48} |->
        CASE c = 5  -> "Disconnection Complete"
          [] c = 8  -> "Encryption Change"
          [] c = 12 -> "Read Remote Version Information Complete"
          [] c = 14 -> "Command Complete"
          [] c = 15 -> "Command Status"
          [] c = 16 -> "Hardware Error (optional)"
          [] c = 19 -> "Number Of Completed Packets"
          [] c = 26 -> "Data Buffer Overflow"
          [] c = 48 -> "Encryption Key Refresh Complete"]

BLUETOOTH_LE_EVENTS ==
    [c \in 1..5 |->
        CASE c = 1 -> "LE Connection Complete"
          [] c = 2 -> "LE Advertising Report"
          [] c = 3 -> "LE Connection Update Complete"
          [] c = 4 -> "LE Read Remote Used Features Complete"
          [] c = 5 -> "LE Long Term Key Requested"]

(***************************************************************************)
(* Python values handed to struct.pack: an integer or a byte string.       *)
(* None is the integer NoneCode where an opcode is expected and the        *)
(* one-field layout NoneFmt where a format is expected.                    *)
(***************************************************************************)
IntV(n) == [k |-> "int", n |-> n, s |-> <<>>]

StrV(s) == [k |-> "str", n |-> 0, s |-> s]

\* a layout is the sequence of the fields of a struct format string
FB == [c |-> "B", n |-> 1]

FH == [c |-> "H", n |-> 1]

FL == [c |-> "L", n |-> 1]

FS(n) == [c |-> "s", n |-> n]

NoneCode == -1

\* '%s' % None is the text 'None', no character of which is a format code
NoneFmt == <<[c |-> "None", n |-> 1]>>

(***************************************************************************)
(* struct: calcsize and pack with the '<' prefix (little-endian, standard  *)
(* sizes, no alignment).                                                   *)
(***************************************************************************)
FieldSize(f) ==
    CASE f.c = "B" -> 1
      [] f.c = "H" -> 2
      [] f.c = "L" -> 4
      [] f.c = "s" -> f.n
      [] OTHER -> 0

ValidFmt(fmt) == \A i \in 1..Len(fmt) : fmt[i].c \in {"B", "H", "L", "s"}

RECURSIVE calcsize(_)
calcsize(fmt) ==
    IF fmt = <<>> THEN 0 ELSE FieldSize(Head(fmt)) + calcsize(Tail(fmt))

RECURSIVE Pow256(_)
Pow256(i) == IF i = 0 THEN 1 ELSE 256 * Pow256(i - 1)

\* LittleEndian with the most significant byte first
LittleEndian_Swapped(n, w) == [i \in 1..w |-> (n \div Pow256(w - i)) % 256]

\* the w bytes of n, least significant first
LittleEndian(n, w) == [i \in 1..w |-> (n \div Pow256(i - 1)) % 256]

\* an 's' field: the string cut to n bytes, or filled with null bytes
PackStr(s, n) == [i \in 1..n |-> IF i <= Len(s) THEN s[i] ELSE 0]

FieldOk(f, v) ==
    IF f.c = "s"
    THEN v.k = "str"
    ELSE v.k = "int" /\ v.n >= 0 /\ v.n \div Pow256(FieldSize(f) - 1) < 256

PackField(f, v) ==
    IF f.c = "s" THEN PackStr(v.s, f.n) ELSE LittleEndian(v.n, FieldSize(f))

RECURSIVE PackAll(_, _)
PackAll(fmt, args) ==
    IF fmt = <<>> THEN <<>>
    ELSE PackField(Head(fmt), Head(args)) \o PackAll(Tail(fmt), Tail(args))

StructError == [ok |-> FALSE, bytes |-> <<>>]

\* struct.pack(fmt, *args): the bytes, or struct.error
struct_pack(fmt, args) ==
    IF /\ ValidFmt(fmt)
       /\ Len(fmt) = Len(args)
       /\ \A i \in 1..Len(fmt) : FieldOk(fmt[i], args[i])
    THEN [ok |-> TRUE, bytes |-> PackAll(fmt, args)]
    ELSE StructError

(***************************************************************************)
(* Packet, Command, Event.                                                 *)
(***************************************************************************)
PacketType(cls) ==
    CASE cls = "Command" -> 1
      [] cls = "Event" -> 4
      [] OTHER -> NoneCode

Command(opcode, fmt, params) ==
    [cls |-> "Command", code |-> opcode, fmt |-> fmt, params |-> params]

Event(code, fmt, params) ==
    [cls |-> "Event", code |-> code, fmt |-> fmt, params |-> params]

\* gatt.DiscCharsByUUID(connection_handle, start_handle, end_handle, char_type)
DiscCharsByUUID(connection_handle, start_handle, end_handle, char_type) ==
    Event(64904, <<FH, FH, FH, FS(Len(char_type))>>,
          <<IntV(connection_handle), IntV(start_handle), IntV(end_handle),
            StrV(char_type)>>)

\* Command.serialize: '<BHB' + fmt
Command_serialize(p) ==
    IF ~ValidFmt(p.fmt) THEN StructError
    ELSE struct_pack(<<FB, FH, FB>> \o p.fmt,
                     <<IntV(PacketType("Command")), IntV(p.code),
                       IntV(calcsize(p.fmt))>> \o p.params)

\* Event.serialize: '<BB' + fmt, with the same three leading arguments
Event_serialize(p) ==
    IF ~ValidFmt(p.fmt) THEN StructError
    ELSE struct_pack(<<FB, FB>> \o p.fmt,
                     <<IntV(PacketType("Event")), IntV(p.code),
                       IntV(calcsize(p.fmt))>> \o p.params)

serialize(p) ==
    IF p.cls = "Command" THEN Command_serialize(p) ELSE Event_serialize(p)

\* Command.parse / Event.parse: cls(); Packet.parse raises
parse(cls, data) ==
    IF cls = "Packet"
    THEN [status |-> "NotImplementedError",
          pkt |-> Command(NoneCode, NoneFmt, <<>>)]
    ELSE [status |-> "ok",
          pkt |-> [cls |-> cls, code |-> NoneCode, fmt |-> NoneFmt,
                   params |-> <<>>]]

\* from_data without the comparison of the packet type
from_data_Unchecked(cls, data) ==
    IF cls = "Packet"
    THEN [status |-> "TypeError", pkt |-> Command(NoneCode, NoneFmt, <<>>)]
    ELSE IF data = <<>>
    THEN [status |-> "IndexError", pkt |-> Command(NoneCode, NoneFmt, <<>>)]
    ELSE parse(cls, Tail(data))

\* Packet.from_data, called on class cls; data[0] of an empty string raises
\* IndexError
from_data(cls, data) ==
    IF cls = "Packet"
    THEN [status |-> "TypeError", pkt |-> Command(NoneCode, NoneFmt, <<>>)]
    ELSE IF data = <<>>
    THEN [status |-> "IndexError", pkt |-> Command(NoneCode, NoneFmt, <<>>)]
    ELSE IF data[1] # PacketType(cls)
    THEN [status |-> "TypeError", pkt |-> Command(NoneCode, NoneFmt, <<>>)]
    ELSE parse(cls, Tail(data))

(***************************************************************************)
(* The command builders of BluetoothDevice.                                *)
(***************************************************************************)
\* init_device() with its default arguments
init_device ==
    Command(65024, <<FB, FB, FS(16), FS(16), FL>>,
            <<IntV(8), IntV(3), StrV(<<0>>), StrV(<<0>>), IntV(1)>>)

discovery(mode, active_scan, white_list) ==
    Command(65028, <<FB, FB, FB>>,
            <<IntV(mode), IntV(active_scan), IntV(white_list)>>)

\* the arguments the caller passes to discovery(): the defaults, and a mode
\* that does not fit its 'B' field
DiscoveryArgs == {<<3, 1, 0>>, <<256, 1, 0>>}

(***************************************************************************)
(* Bytes the transport delivers to the reader.                             *)
(***************************************************************************)
\* serial.read(): the frame kind byte (1: Command; 4: Event)
KindBytes == {1, 4}

\* event_code: vendor, core table, LE meta event, none of these
CodeBytes == {255, 14, 62, 1}

\* params_len
LenBytes == {0, 1}

\* a parameter byte: LE sub-event in the table, and not in it
ParamBytes == {2, 6}

(***************************************************************************)
(* State.                                                                  *)
(***************************************************************************)
VARIABLES
    alive,          \* self.alive (unset before start(): FALSE)
    reader_alive,   \* self._reader_alive
    packets,        \* the Command objects the builders made, in put order
    packet_queue,   \* self.packet_queue: indices into packets, head first
    written,        \* the calls of serial.write so far, in order
    notes,          \* the lines the reader printed, in order
    budget,         \* inputs the session may still take (bounds the model)
    consumed,       \* bytes the serial.read calls returned so far
    starts,         \* calls of start(); thread starts is self.*_thread
    readers,        \* the reader threads
    writers,        \* the writer threads
    ownerPc,        \* where the owner is in start() / join() / _stop_reader()
    pkt,            \* codec: the packet built
    wire,           \* codec: the result of pkt.serialize()
    decoded         \* codec: the result of cls.from_data(wire)

sessionVars ==
    <<alive, reader_alive, packets, packet_queue, written, notes, budget,
      consumed, starts, readers, writers, ownerPc>>

codecVars == <<pkt, wire, decoded>>

vars == <<sessionVars, codecVars>>

\* one reader and one writer thread for every call of start()
Threads == 1..(1 + MaxRestarts)

NoPacket == Command(NoneCode, <<>>, <<>>)

NoWire == [called |-> FALSE, ok |-> FALSE, bytes |-> <<>>]

NoDecoded ==
    [cls |-> "none", status |-> "none", pkt |-> NoPacket, data |-> <<>>]

\* a reader thread: where it is in reader(), its locals packet_type,
\* event_code, params_len and params_data, and the exception that ended it
NewReader ==
    [pc |-> "new", kind |-> 0, code |-> 0, len |-> 0, params |-> <<>>,
     exc |-> "none"]

\* a writer thread: where it is in writer(), its local packet (an index into
\* packets, 0 before the first get), and the exception that ended it
NewWriter == [pc |-> "new", packet |-> 0, exc |-> "none"]

Init ==
    /\ alive = FALSE
    /\ reader_alive = FALSE
    /\ packets = <<>>
    /\ packet_queue = <<>>
    /\ written = <<>>
    /\ notes = <<>>
    /\ budget = MaxInputs
    /\ consumed = 0
    /\ starts = 0
    /\ readers = [t \in Threads |-> NewReader]
    /\ writers = [t \in Threads |-> NewWriter]
    /\ ownerPc = "idle"
    /\ pkt = NoPacket
    /\ wire = NoWire
    /\ decoded = NoDecoded

(***************************************************************************)
(* The command decorator: build the packet, put it on packet_queue.        *)
(***************************************************************************)
\* Put placing the command at the head of the queue
Put_AtHead(p) ==
    /\ packets' = Append(packets, p)
    /\ packet_queue' = <<Len(packets) + 1>> \o packet_queue

Put(p) ==
    /\ packets' = Append(packets, p)
    /\ packet_queue' = Append(packet_queue, Len(packets) + 1)

\* the caller's thread calls device.discovery(...)
Enqueue ==
    /\ budget > 0
    /\ budget' = budget - 1
    /\ \E a \in DiscoveryArgs : Put(discovery(a[1], a[2], a[3]))
    /\ UNCHANGED <<alive, reader_alive, written, notes, consumed, starts,
                   readers, writers, ownerPc, codecVars>>

(***************************************************************************)
(* The owner: start(), stop(), join(), _stop_reader().                     *)
(***************************************************************************)
\* start(), from alive = True to the start of the receiver thread
StartBody ==
    /\ ownerPc = "idle"
    /\ alive' = TRUE
    /\ reader_alive' = TRUE
    /\ starts' = starts + 1
    /\ readers' = [readers EXCEPT ![starts + 1].pc = "check"]
    /\ ownerPc' = "start_writer"
    /\ UNCHANGED <<packets, packet_queue, written, notes, budget, consumed,
                   writers, codecVars>>

\* the first start() of the session
Start == starts = 0 /\ StartBody

\* start() on a session that was started before, whether or not its threads
\* have ended
StartAgain == starts > 0 /\ starts < 1 + MaxRestarts /\ StartBody

\* start(): the transmitter thread
StartWriter ==
    /\ ownerPc = "start_writer"
    /\ writers' = [writers EXCEPT ![starts].pc = "check"]
    /\ ownerPc' = "start_init"
    /\ UNCHANGED <<alive, reader_alive, packets, packet_queue, written, notes,
                   budget, consumed, starts, readers, codecVars>>

\* StartInit with init_device() put ahead of the commands already queued
StartInit_AtHead ==
    /\ ownerPc = "start_init"
    /\ Put_AtHead(init_device)
    /\ ownerPc' = "idle"
    /\ UNCHANGED <<alive, reader_alive, written, notes, budget, consumed,
                   starts, readers, writers, codecVars>>

\* start(): self.init_device()
StartInit ==
    /\ ownerPc = "start_init"
    /\ Put(init_device)
    /\ ownerPc' = "idle"
    /\ UNCHANGED <<alive, reader_alive, written, notes, budget, consumed,
                   starts, readers, writers, codecVars>>

Stop ==
    /\ ownerPc = "idle"
    /\ alive' = FALSE
    /\ UNCHANGED <<reader_alive, packets, packet_queue, written, notes,
                   budget, consumed, starts, readers, writers, ownerPc,
                   codecVars>>

\* join(transmit_only): before any start() there is no thread to join
Join ==
    /\ ownerPc = "idle"
    /\ starts > 0
    /\ \E transmit_only \in BOOLEAN :
          ownerPc' = IF transmit_only THEN "join_tx_only" ELSE "join_tx"
    /\ UNCHANGED <<alive, reader_alive, packets, packet_queue, written, notes,
                   budget, consumed, starts, readers, writers, codecVars>>

\* self.transmitter_thread.join() returns
JoinWriter ==
    /\ ownerPc \in {"join_tx", "join_tx_only"}
    /\ writers[starts].pc = "done"
    /\ ownerPc' = IF ownerPc = "join_tx" THEN "join_rx" ELSE "idle"
    /\ UNCHANGED <<alive, reader_alive, packets, packet_queue, written, notes,
                   budget, consumed, starts, readers, writers, codecVars>>

\* self.receiver_thread.join() returns
JoinReader ==
    /\ ownerPc = "join_rx"
    /\ readers[starts].pc = "done"
    /\ ownerPc' = "idle"
    /\ UNCHANGED <<alive, reader_alive, packets, packet_queue, written, notes,
                   budget, consumed, starts, readers, writers, codecVars>>

\* _stop_reader(): the flag, then receiver_thread.join()
StopReader ==
    /\ ownerPc = "idle"
    /\ starts > 0
    /\ reader_alive' = FALSE
    /\ ownerPc' = "stop_reader"
    /\ UNCHANGED <<alive, packets, packet_queue, written, notes, budget,
                   consumed, starts, readers, writers, codecVars>>

StopReaderJoin ==
    /\ ownerPc = "stop_reader"
    /\ readers[starts].pc = "done"
    /\ ownerPc' = "idle"
    /\ UNCHANGED <<alive, reader_alive, packets, packet_queue, written, notes,
                   budget, consumed, starts, readers, writers, codecVars>>

(***************************************************************************)
(* The reader thread: BluetoothDevice.reader.                              *)
(***************************************************************************)
\* a printed line: its text, the name it quotes, the byte it formats
Note(msg, name, code) == [msg |-> msg, name |-> name, code |-> code]

VendorNote == Note("Vendor specific event", "", 0)

CoreNote(name) == Note("Bluetooth event", name, 0)

LENote(name) == Note("Bluetooth LE event", name, 0)

UnknownCodeNote(code) == Note("Unknown event code", "", code)

WrongTypeNote(b) == Note("wrong packet type", "", b)

\* Classify with the sub-event looked up in BLUETOOTH_EVENTS
Classify_CoreTableForLE(event_code, params_data) ==
    IF event_code = 255
    THEN [exc |-> "none", note |-> VendorNote]
    ELSE IF event_code \in DOMAIN BLUETOOTH_EVENTS
    THEN [exc |-> "none", note |-> CoreNote(BLUETOOTH_EVENTS[event_code])]
    ELSE IF event_code = 62
    THEN IF params_data = <<>>
         THEN [exc |-> "IndexError", note |-> VendorNote]
         ELSE IF params_data[1] \notin DOMAIN BLUETOOTH_EVENTS
         THEN [exc |-> "KeyError", note |-> VendorNote]
         ELSE [exc |-> "none",
               note |-> LENote(BLUETOOTH_EVENTS[params_data[1]])]
    ELSE [exc |-> "none", note |-> UnknownCodeNote(event_code)]

\* the if / elif chain on event_code: the line printed, or the exception
\* the lookups raise
Classify(event_code, params_data) ==
    IF event_code = 255
    THEN [exc |-> "none", note |-> VendorNote]
    ELSE IF event_code \in DOMAIN BLUETOOTH_EVENTS
    THEN [exc |-> "none", note |-> CoreNote(BLUETOOTH_EVENTS[event_code])]
    ELSE IF event_code = 62
    THEN IF params_data = <<>>
         THEN [exc |-> "IndexError", note |-> VendorNote]
         ELSE IF params_data[1] \notin DOMAIN BLUETOOTH_LE_EVENTS
         THEN [exc |-> "KeyError", note |-> VendorNote]
         ELSE [exc |-> "none",
               note |-> LENote(BLUETOOTH_LE_EVENTS[params_data[1]])]
    ELSE [exc |-> "none", note |-> UnknownCodeNote(event_code)]

ReaderUnchanged ==
    UNCHANGED <<reader_alive, packets, packet_queue, written, starts, writers,
                ownerPc, codecVars>>

\* ReaderCheck testing alive alone
ReaderCheck_AliveOnly(r) ==
    /\ readers[r].pc = "check"
    /\ readers' = [readers EXCEPT ![r].pc = IF alive THEN "read1" ELSE "done"]
    /\ UNCHANGED <<alive, notes, budget, consumed>>
    /\ ReaderUnchanged

\* while self.alive and self._reader_alive
ReaderCheck(r) ==
    /\ readers[r].pc = "check"
    /\ readers' = [readers EXCEPT
                    ![r].pc = IF alive /\ reader_alive THEN "read1" ELSE "done"]
    /\ UNCHANGED <<alive, notes, budget, consumed>>
    /\ ReaderUnchanged

\* serial.read() timed out: if not data: continue
ReaderTimeout(r) ==
    /\ readers[r].pc = "read1"
    /\ readers' = [readers EXCEPT ![r].pc = "check"]
    /\ UNCHANGED <<alive, notes, budget, consumed>>
    /\ ReaderUnchanged

\* serial.read() gave the Event packet type
ReaderEventKind(r) ==
    /\ readers[r].pc = "read1"
    /\ budget > 0
    /\ \E b \in KindBytes :
          /\ b = PacketType("Event")
          /\ readers' = [readers EXCEPT ![r].pc = "header", ![r].kind = b]
    /\ budget' = budget - 1
    /\ consumed' = consumed + 1
    /\ UNCHANGED <<alive, notes>>
    /\ ReaderUnchanged

\* ReaderWrongType going on to read a header after the line is printed
ReaderWrongType_FallsThrough(r) ==
    /\ readers[r].pc = "read1"
    /\ budget > 0
    /\ \E b \in KindBytes :
          /\ b # PacketType("Event")
          /\ notes' = Append(notes, WrongTypeNote(b))
          /\ readers' = [readers EXCEPT ![r].pc = "header", ![r].kind = b]
    /\ budget' = budget - 1
    /\ consumed' = consumed + 1
    /\ UNCHANGED alive
    /\ ReaderUnchanged

\* serial.read() gave another byte: print 'wrong packet type %02x'
ReaderWrongType(r) ==
    /\ readers[r].pc = "read1"
    /\ budget > 0
    /\ \E b \in KindBytes :
          /\ b # PacketType("Event")
          /\ notes' = Append(notes, WrongTypeNote(b))
          /\ readers' = [readers EXCEPT ![r].pc = "check", ![r].kind = b]
    /\ budget' = budget - 1
    /\ consumed' = consumed + 1
    /\ UNCHANGED alive
    /\ ReaderUnchanged

\* event_code, params_len = struct.unpack('<BB', self.serial.read(2))
ReaderHeader(r) ==
    /\ readers[r].pc = "header"
    /\ \E event_code \in CodeBytes, params_len \in LenBytes :
          readers' = [readers EXCEPT ![r].pc = "params",
                                     ![r].code = event_code,
                                     ![r].len = params_len]
    /\ consumed' = consumed + 2
    /\ UNCHANGED <<alive, notes, budget>>
    /\ ReaderUnchanged

\* serial.read(2) timed out with fewer than 2 bytes: struct.unpack raises
\* struct.error, which reader() does not catch
ReaderHeaderShort(r) ==
    /\ readers[r].pc = "header"
    /\ readers' = [readers EXCEPT ![r].pc = "done", ![r].exc = "struct.error"]
    /\ \E n \in {0, 1} : consumed' = consumed + n
    /\ UNCHANGED <<alive, notes, budget>>
    /\ ReaderUnchanged

\* the byte strings serial.read(n) may return: n bytes, or fewer on a timeout
ReadResults(n) == UNION {[1..m -> ParamBytes] : m \in 0..n}

\* params_data = self.serial.read(params_len), and the if / elif chain
ReaderParams(r) ==
    /\ readers[r].pc = "params"
    /\ \E params_data \in ReadResults(readers[r].len) :
          LET c == Classify(readers[r].code, params_data) IN
          /\ consumed' = consumed + Len(params_data)
          /\ IF c.exc = "none"
             THEN /\ notes' = Append(notes, c.note)
                  /\ readers' = [readers EXCEPT ![r].pc = "check",
                                                ![r].params = params_data]
             ELSE /\ notes' = notes
                  /\ readers' = [readers EXCEPT ![r].pc = "done",
                                                ![r].params = params_data,
                                                ![r].exc = c.exc]
    /\ UNCHANGED <<alive, budget>>
    /\ ReaderUnchanged

\* ReaderFault without the except clause that clears alive
ReaderFault_KeepsAlive(r) ==
    /\ readers[r].pc \in {"read1", "header", "params"}
    /\ readers' = [readers EXCEPT ![r].pc = "done",
                                  ![r].exc = "SerialException"]
    /\ UNCHANGED <<alive, notes, budget, consumed>>
    /\ ReaderUnchanged

\* any of the three serial.read calls raises serial.SerialException
ReaderFault(r) ==
    /\ readers[r].pc \in {"read1", "header", "params"}
    /\ alive' = FALSE
    /\ readers' = [readers EXCEPT ![r].pc = "done",
                                  ![r].exc = "SerialException"]
    /\ UNCHANGED <<notes, budget, consumed>>
    /\ ReaderUnchanged

ReaderStep(r) ==
    \/ ReaderCheck(r)
    \/ ReaderTimeout(r)
    \/ ReaderEventKind(r)
    \/ ReaderWrongType(r)
    \/ ReaderHeader(r)
    \/ ReaderHeaderShort(r)
    \/ ReaderParams(r)
    \/ ReaderFault(r)

(***************************************************************************)
(* The writer thread: BluetoothDevice.writer.                              *)
(***************************************************************************)
WriterUnchanged ==
    UNCHANGED <<reader_alive, packets, notes, budget, consumed, starts,
                readers, ownerPc, codecVars>>

\* WriterCheck looping whatever alive is
WriterCheck_Forever(w) ==
    /\ writers[w].pc = "check"
    /\ writers' = [writers EXCEPT ![w].pc = "get"]
    /\ UNCHANGED <<alive, packet_queue, written>>
    /\ WriterUnchanged

\* WriterCheck going on while commands are queued
WriterCheck_Drains(w) ==
    /\ writers[w].pc = "check"
    /\ writers' = [writers EXCEPT
                    ![w].pc = IF alive \/ packet_queue # <<>>
                              THEN "get" ELSE "done"]
    /\ UNCHANGED <<alive, packet_queue, written>>
    /\ WriterUnchanged

\* while self.alive
WriterCheck(w) ==
    /\ writers[w].pc = "check"
    /\ writers' = [writers EXCEPT ![w].pc = IF alive THEN "get" ELSE "done"]
    /\ UNCHANGED <<alive, packet_queue, written>>
    /\ WriterUnchanged

\* WriterGet taking the command put last
WriterGet_Lifo(w) ==
    /\ writers[w].pc = "get"
    /\ packet_queue # <<>>
    /\ writers' = [writers EXCEPT ![w].pc = "write",
                                  ![w].packet = packet_queue[Len(packet_queue)]]
    /\ packet_queue' = SubSeq(packet_queue, 1, Len(packet_queue) - 1)
    /\ UNCHANGED <<alive, written>>
    /\ WriterUnchanged

\* packet = self.packet_queue.get(timeout=IO_TIMEOUT)
WriterGet(w) ==
    /\ writers[w].pc = "get"
    /\ packet_queue # <<>>
    /\ writers' = [writers EXCEPT ![w].pc = "write",
                                  ![w].packet = Head(packet_queue)]
    /\ packet_queue' = Tail(packet_queue)
    /\ UNCHANGED <<alive, written>>
    /\ WriterUnchanged

\* WriterEmpty with queue.Empty handled like any other exception
WriterEmpty_Fatal(w) ==
    /\ writers[w].pc = "get"
    /\ packet_queue = <<>>
    /\ alive' = FALSE
    /\ writers' = [writers EXCEPT ![w].pc = "done", ![w].exc = "Empty"]
    /\ UNCHANGED <<packet_queue, written>>
    /\ WriterUnchanged

\* the get timed out: except queue.Empty: pass
WriterEmpty(w) ==
    /\ writers[w].pc = "get"
    /\ packet_queue = <<>>
    /\ writers' = [writers EXCEPT ![w].pc = "check"]
    /\ UNCHANGED <<alive, packet_queue, written>>
    /\ WriterUnchanged

\* self.serial.write(packet.serialize())
WriterWrite(w) ==
    /\ writers[w].pc = "write"
    /\ serialize(packets[writers[w].packet]).ok
    /\ written' = Append(written,
                         [packet |-> writers[w].packet,
                          bytes |-> serialize(packets[writers[w].packet]).bytes,
                          by |-> w])
    /\ writers' = [writers EXCEPT ![w].pc = "check", ![w].packet = 0]
    /\ UNCHANGED <<alive, packet_queue>>
    /\ WriterUnchanged

\* packet.serialize() raises struct.error: except: self.alive = False; raise
WriterSerializeError(w) ==
    /\ writers[w].pc = "write"
    /\ ~serialize(packets[writers[w].packet]).ok
    /\ alive' = FALSE
    /\ writers' = [writers EXCEPT ![w].pc = "done", ![w].packet = 0,
                                  ![w].exc = "struct.error"]
    /\ UNCHANGED <<packet_queue, written>>
    /\ WriterUnchanged

\* WriterFault without the except clause that clears alive
WriterFault_KeepsAlive(w) ==
    /\ writers[w].pc = "write"
    /\ serialize(packets[writers[w].packet]).ok
    /\ writers' = [writers EXCEPT ![w].pc = "done", ![w].packet = 0,
                                  ![w].exc = "SerialException"]
    /\ UNCHANGED <<alive, packet_queue, written>>
    /\ WriterUnchanged

\* serial.write raises: except: self.alive = False; raise
WriterFault(w) ==
    /\ writers[w].pc = "write"
    /\ serialize(packets[writers[w].packet]).ok
    /\ alive' = FALSE
    /\ writers' = [writers EXCEPT ![w].pc = "done", ![w].packet = 0,
                                  ![w].exc = "SerialException"]
    /\ UNCHANGED <<packet_queue, written>>
    /\ WriterUnchanged

WriterStep(w) ==
    \/ WriterCheck(w)
    \/ WriterGet(w)
    \/ WriterEmpty(w)
    \/ WriterWrite(w)
    \/ WriterSerializeError(w)
    \/ WriterFault(w)

(***************************************************************************)
(* The session.                                                            *)
(***************************************************************************)
Next ==
    \/ Enqueue
    \/ Start
    \/ StartWriter
    \/ StartInit
    \/ Stop
    \/ Join
    \/ JoinWriter
    \/ JoinReader
    \/ StopReader
    \/ StopReaderJoin
    \/ \E r \in Threads : ReaderStep(r)
    \/ \E w \in Threads : WriterStep(w)

\* the session, started once
Spec == Init /\ [][Next]_vars

(***************************************************************************)
(* The codec on its own: a packet is built, serialized, and the bytes are  *)
(* handed to from_data of a class.                                         *)
(***************************************************************************)
Opcodes == {65028, 65024, 258}

ByteVals == {0, 3, 255}

ShortVals == {0, 258, 65535}

LongVals == {1, 16909060}

Strs == UNION {[1..n -> {0, 171}] : n \in 0..MaxStrLen}

TestCommands ==
    {Command(o, <<>>, <<>>) : o \in Opcodes \cup {65536}}
    \cup {discovery(m, a, 0) : m \in ByteVals \cup {256}, a \in {0, 1}}
    \cup {init_device}
    \cup {Command(o, <<FH, FL>>, <<IntV(h), IntV(l)>>) :
            o \in Opcodes, h \in ShortVals, l \in LongVals}
    \cup {Command(65028, <<FB, FS(n)>>, <<IntV(3), StrV(s)>>) :
            n \in 1..MaxStrLen, s \in Strs}
    \cup {Command(65028, <<FS(255), FB>>, <<StrV(<<171>>), IntV(0)>>),
          Command(65028, <<FB, FB>>, <<IntV(1)>>),
          Command(65028, <<FB>>, <<StrV(<<0>>)>>)}

TestEvents ==
    {Event(c, <<>>, <<>>) : c \in {14, 62, 255}}
    \cup {Event(c, <<FB>>, <<IntV(b)>>) : c \in {14, 62}, b \in ByteVals}
    \cup {DiscCharsByUUID(1, 1, 65535, s) : s \in Strs}

InitCodec ==
    /\ alive = FALSE
    /\ reader_alive = FALSE
    /\ packets = <<>>
    /\ packet_queue = <<>>
    /\ written = <<>>
    /\ notes = <<>>
    /\ budget = 0
    /\ consumed = 0
    /\ starts = 0
    /\ readers = [t \in Threads |-> NewReader]
    /\ writers = [t \in Threads |-> NewWriter]
    /\ ownerPc = "idle"
    /\ pkt \in TestCommands \cup TestEvents
    /\ wire = NoWire
    /\ decoded = NoDecoded

\* wire = pkt.serialize()
Serialize ==
    /\ ~wire.called
    /\ wire' = [called |-> TRUE, ok |-> serialize(pkt).ok,
                bytes |-> serialize(pkt).bytes]
    /\ UNCHANGED <<pkt, decoded, sessionVars>>

\* decoded = cls.from_data(wire)
Decode ==
    /\ wire.ok
    /\ decoded = NoDecoded
    /\ \E cls \in {"Packet", "Command", "Event"} :
          decoded' = [cls |-> cls,
                      status |-> from_data(cls, wire.bytes).status,
                      pkt |-> from_data(cls, wire.bytes).pkt,
                      data |-> wire.bytes]
    /\ UNCHANGED <<pkt, wire, sessionVars>>

\* byte strings a caller may hand to from_data: a command frame, event
\* frames, a frame of neither kind, a lone type byte, the empty string
Frames ==
    {<<1, 4, 254, 3, 3, 1, 0>>, <<4, 14, 1, 0>>, <<4, 62, 1, 2>>, <<2, 0, 0>>,
     <<4>>, <<1>>, <<>>}

\* decoded = cls.from_data(data) for data that is not a serialization
DecodeFrame ==
    /\ ~wire.called
    /\ decoded = NoDecoded
    /\ \E cls \in {"Packet", "Command", "Event"}, data \in Frames :
          decoded' = [cls |-> cls,
                      status |-> from_data(cls, data).status,
                      pkt |-> from_data(cls, data).pkt,
                      data |-> data]
    /\ UNCHANGED <<pkt, wire, sessionVars>>

NextCodec == Serialize \/ Decode \/ DecodeFrame

CodecSpec == InitCodec /\ [][NextCodec]_vars

(***************************************************************************)
(* Scheduling: a thread that can take a step takes one; calls of the owner *)
(* that are straight-line code, or a join whose thread has ended, return.  *)
(* Next starts the session once, so its threads are reader 1 and writer 1. *)
(***************************************************************************)
OwnerReturns ==
    StartWriter \/ StartInit \/ JoinWriter \/ JoinReader \/ StopReaderJoin

Fairness ==
    /\ WF_vars(ReaderStep(1))
    /\ WF_vars(WriterStep(1))
    /\ WF_vars(OwnerReturns)

InitFair ==
    /\ alive = FALSE
    /\ reader_alive = FALSE
    /\ packets = <<>>
    /\ packet_queue = <<>>
    /\ written = <<>>
    /\ notes = <<>>
    /\ budget = MaxFairInputs
    /\ consumed = 0
    /\ starts = 0
    /\ readers = [t \in Threads |-> NewReader]
    /\ writers = [t \in Threads |-> NewWriter]
    /\ ownerPc = "idle"
    /\ pkt = NoPacket
    /\ wire = NoWire
    /\ decoded = NoDecoded

FairSpec == InitFair /\ [][Next]_vars /\ Fairness

(***************************************************************************)
(* The session whose owner may call start() again, at any time: after      *)
(* stop(), with or without a join(), or with no stop() at all.             *)
(***************************************************************************)
InitRestart ==
    /\ alive = FALSE
    /\ reader_alive = FALSE
    /\ packets = <<>>
    /\ packet_queue = <<>>
    /\ written = <<>>
    /\ notes = <<>>
    /\ budget = MaxRestartInputs
    /\ consumed = 0
    /\ starts = 0
    /\ readers = [t \in Threads |-> NewReader]
    /\ writers = [t \in Threads |-> NewWriter]
    /\ ownerPc = "idle"
    /\ pkt = NoPacket
    /\ wire = NoWire
    /\ decoded = NoDecoded

NextRestart == Next \/ StartAgain

RestartSpec == InitRestart /\ [][NextRestart]_vars

(***************************************************************************)
(* Properties of the writer.                                               *)
(***************************************************************************)
\* C1: the writes on the transport are in put order: each write is the whole
\* serialization of one command of packets, and the commands written come in
\* strictly increasing put position (none twice, none ahead of an earlier one)
OutboundOrder ==
    /\ \A i \in 1..Len(written) :
          /\ written[i].packet \in 1..Len(packets)
          /\ serialize(packets[written[i].packet]).ok
          /\ written[i].bytes = serialize(packets[written[i].packet]).bytes
    /\ \A i, j \in 1..Len(written) :
          i < j => written[i].packet < written[j].packet

\* three commands were written, one after the other
OutboundOrderWitness == Len(written) = 3

\* C4: a step in which serial.write raises clears alive, ends the writer,
\* and leaves the queue and the transport as they were (the command is
\* neither put back nor written); a writer that has ended stays ended and
\* no later write is its own
WriteFaultFatal ==
    [][\A w \in Threads :
          /\ (writers[w].pc = "write" /\ writers'[w].exc = "SerialException")
                => /\ alive' = FALSE
                   /\ writers'[w].pc = "done"
                   /\ packet_queue' = packet_queue
                   /\ written' = written
          /\ writers[w].pc = "done"
                => /\ writers'[w].pc = "done"
                   /\ written' # written
                         => written'[Len(written')].by # w]_vars

\* a write raised while a later command waits in the queue
WriteFaultWitness ==
    \E w \in Threads :
        /\ writers[w].exc = "SerialException"
        /\ packet_queue # <<>>
        /\ ~alive

(***************************************************************************)
(* Properties of the reader.                                               *)
(***************************************************************************)
\* the reader r takes the step that ends its read of the parameters, and
\* that read did not raise
FrameRead(r) ==
    /\ readers[r].pc = "params"
    /\ readers'[r].pc # "params"
    /\ readers'[r].exc # "SerialException"

\* C2: a frame with event_code 0x3e whose first parameter byte is not in
\* BLUETOOTH_LE_EVENTS makes the reader print one more line and go on with
\* its loop
UnknownSubEventContinues ==
    [][\A r \in Threads :
          (/\ FrameRead(r)
           /\ readers[r].code = 62
           /\ readers'[r].params # <<>>
           /\ readers'[r].params[1] \notin DOMAIN BLUETOOTH_LE_EVENTS)
          => /\ Len(notes') = Len(notes) + 1
             /\ readers'[r].pc = "check"]_vars

\* C6: a step in which serial.read() returns a byte other than the Event
\* packet type prints 'wrong packet type' with that byte, takes that one
\* byte and no other from the transport, and leaves the reader at the head
\* of its loop, from where nothing is read before the next serial.read() of
\* a packet type
WrongTypeResync ==
    [][\A r \in Threads :
          /\ (/\ readers[r].pc = "read1"
              /\ readers'[r].pc # "read1"
              /\ consumed' # consumed
              /\ readers'[r].kind # 4)
                => /\ notes' = Append(notes, WrongTypeNote(readers'[r].kind))
                   /\ consumed' = consumed + 1
                   /\ readers'[r].pc = "check"
                   /\ readers'[r].exc = "none"
          /\ (readers[r].pc = "check" /\ readers'[r] # readers[r])
                => /\ readers'[r].pc \in {"read1", "done"}
                   /\ consumed' = consumed]_vars

\* a stray byte was reported, and the byte after it was taken as the packet
\* type of an event that was then reported
WrongTypeResyncWitness ==
    /\ Len(notes) = 2
    /\ notes[1] = WrongTypeNote(1)
    /\ notes[2].msg = "Bluetooth event"
    /\ consumed = 4

\* C7: the step that ends a complete event frame (all params_len bytes were
\* read) prints the vendor line for event_code 0xff, the name of the core
\* table for a code of that table, the name of the LE table for 0x3e with a
\* first parameter byte of that table, and the unknown event code line with
\* the code for every code that is none of 0xff, a core code, 0x3e
EventClassification ==
    [][\A r \in Threads :
          (FrameRead(r) /\ Len(readers'[r].params) = readers[r].len)
          => LET code == readers[r].code
                 params == readers'[r].params
             IN  /\ code = 255 => notes' = Append(notes, VendorNote)
                 /\ code \in DOMAIN BLUETOOTH_EVENTS
                       => notes' = Append(notes,
                                          CoreNote(BLUETOOTH_EVENTS[code]))
                 /\ code = 14
                       => notes'[Len(notes')].name = "Command Complete"
                 /\ (/\ code = 62
                     /\ params # <<>>
                     /\ params[1] \in DOMAIN BLUETOOTH_LE_EVENTS)
                       => notes' = Append(notes,
                                     LENote(BLUETOOTH_LE_EVENTS[params[1]]))
                 /\ (code = 62 /\ params # <<>> /\ params[1] = 2)
                       => notes'[Len(notes')].name = "LE Advertising Report"
                 /\ code \notin {255, 62} \cup DOMAIN BLUETOOTH_EVENTS
                       => notes' = Append(notes, UnknownCodeNote(code))]_vars

\* a core event and then an LE event were reported
EventClassificationWitness ==
    /\ Len(notes) = 2
    /\ notes[1] = CoreNote("Command Complete")
    /\ notes[2] = LENote("LE Advertising Report")

(***************************************************************************)
(* Properties of the session.                                              *)
(***************************************************************************)
\* C3: once the owner is in join() with alive cleared (stop() was called),
\* join() returns, and then alive is false and both threads have ended
StopJoinReturns ==
    (ownerPc \in {"join_tx", "join_rx"} /\ ~alive)
        ~> /\ ownerPc = "idle"
           /\ ~alive
           /\ starts > 0
           /\ writers[starts].pc = "done"
           /\ readers[starts].pc = "done"

\* stop() was called (alive is cleared and no thread raised), the owner is
\* in join(), and both threads have ended
StopJoinWitness ==
    /\ ownerPc = "join_rx"
    /\ ~alive
    /\ starts > 0
    /\ \A t \in Threads : readers[t].exc = "none" /\ writers[t].exc = "none"
    /\ readers[starts].pc = "done"
    /\ writers[starts].pc = "done"

\* C5: a step in which one of the reads of the reader raises
\* serial.SerialException clears alive and ends the reader; and after it the
\* writer of the same start() ends too (reader 1 and writer 1, the threads
\* of the one start() of Next)
ReaderFaultStopsSession ==
    /\ [][\A r \in Threads :
             (/\ readers[r].pc \in {"read1", "header", "params"}
              /\ readers'[r].exc = "SerialException")
             => alive' = FALSE /\ readers'[r].pc = "done"]_vars
    /\ (readers[1].exc = "SerialException") ~> (writers[1].pc = "done")

\* the reader raised and the writer ended without raising, while the owner
\* was still inside start(): stop() was never called
ReaderFaultWitness ==
    /\ ownerPc = "start_init"
    /\ readers[1].exc = "SerialException"
    /\ writers[1].pc = "done"
    /\ writers[1].exc = "none"

(***************************************************************************)
(* Properties of the codec.                                                *)
(***************************************************************************)
\* a command with a 16-bit opcode whose values match its layout
ValidCommand(p) ==
    /\ p.cls = "Command"
    /\ p.code \in 0..65535
    /\ ValidFmt(p.fmt)
    /\ Len(p.fmt) = Len(p.params)
    /\ \A i \in 1..Len(p.fmt) : FieldOk(p.fmt[i], p.params[i])

\* an event with a 1-byte code whose values match its layout
ValidEvent(p) ==
    /\ p.cls = "Event"
    /\ p.code \in 0..255
    /\ ValidFmt(p.fmt)
    /\ Len(p.fmt) = Len(p.params)
    /\ \A i \in 1..Len(p.fmt) : FieldOk(p.fmt[i], p.params[i])

\* the number a little-endian byte string stands for
RECURSIVE FromLittleEndian(_)
FromLittleEndian(bs) ==
    IF bs = <<>> THEN 0 ELSE Head(bs) + 256 * FromLittleEndian(Tail(bs))

\* bytes, from position first on, hold the fields of fmt one after the other
\* with nothing between them: an integer as its little-endian bytes, a byte
\* string cut or filled with null bytes to the length of its field
RECURSIVE HoldsFields(_, _, _, _)
HoldsFields(bytes, first, fmt, params) ==
    IF fmt = <<>> THEN first = Len(bytes) + 1
    ELSE LET f == Head(fmt)
             v == Head(params)
             n == FieldSize(f)
             field == SubSeq(bytes, first, first + n - 1)
         IN  /\ first + n - 1 <= Len(bytes)
             /\ IF f.c = "s"
                THEN \A i \in 1..n :
                        field[i] = IF i <= Len(v.s) THEN v.s[i] ELSE 0
                ELSE FromLittleEndian(field) = v.n
             /\ HoldsFields(bytes, first + n, Tail(fmt), Tail(params))

\* serialize() gave [1][opcode low][opcode high][param_len][params...]
CommandFrame(p, w) ==
    /\ w.ok
    /\ Len(w.bytes) >= 4
    /\ \A i \in 1..Len(w.bytes) : w.bytes[i] \in 0..255
    /\ w.bytes[1] = 1
    /\ w.bytes[2] = p.code % 256
    /\ w.bytes[3] = p.code \div 256
    /\ w.bytes[4] = Len(w.bytes) - 4
    /\ HoldsFields(w.bytes, 5, p.fmt, p.params)

\* serialize() gave [4][code][param_len][params...]
EventFrame(p, w) ==
    /\ w.ok
    /\ Len(w.bytes) >= 3
    /\ w.bytes[1] = 4
    /\ w.bytes[2] = p.code
    /\ w.bytes[3] = Len(w.bytes) - 3
    /\ HoldsFields(w.bytes, 4, p.fmt, p.params)

\* C8: Command.from_data of the bytes of a valid command gives a Command
\* with the same opcode and the same parameter bytes
RoundTrip ==
    (/\ ValidCommand(pkt)
     /\ wire.ok
     /\ decoded.cls = "Command"
     /\ decoded.data = wire.bytes)
    => /\ decoded.status = "ok"
       /\ decoded.pkt.cls = "Command"
       /\ decoded.pkt.code = pkt.code
       /\ serialize(decoded.pkt).ok
       /\ SubSeq(serialize(decoded.pkt).bytes, 5,
                 Len(serialize(decoded.pkt).bytes))
             = SubSeq(wire.bytes, 5, Len(wire.bytes))

\* C9, as the claim states it: serialize() of every valid command gives the
\* frame [1][opcode low][opcode high][param_len][params...], and
\* Command(0xfe04, 'BBB', 3, 1, 0) gives 01 04 fe 03 03 01 00
CommandEncoding ==
    (ValidCommand(pkt) /\ wire.called)
    => /\ CommandFrame(pkt, wire)
       /\ pkt = discovery(3, 1, 0) => wire.bytes = <<1, 4, 254, 3, 3, 1, 0>>

\* C9, amended: the same for every valid command whose layout packs to at
\* most 255 bytes, the most the 1-byte param_len can carry
CommandEncodingFits ==
    (ValidCommand(pkt) /\ calcsize(pkt.fmt) <= 255 /\ wire.called)
    => /\ CommandFrame(pkt, wire)
       /\ pkt = discovery(3, 1, 0) => wire.bytes = <<1, 4, 254, 3, 3, 1, 0>>

\* init_device(), with its two 16-byte keys and its 32-bit counter, was
\* serialized
CommandEncodingWitness ==
    /\ pkt = init_device
    /\ wire.called
    /\ wire.ok
    /\ Len(wire.bytes) = 42

\* C10: serialize() of every valid event gives the frame
\* [4][code][param_len][params...]
EventEncoding ==
    (ValidEvent(pkt) /\ wire.called) => EventFrame(pkt, wire)

\* C11: from_data of a byte string with a leading type byte raises TypeError
\* when that byte is not the packet type of the class it is called on, and
\* returns a packet only when it is; called on Packet it always raises
TypeKindMismatch ==
    (decoded.cls # "none" /\ decoded.data # <<>>)
    => /\ decoded.data[1] # PacketType(decoded.cls)
             => decoded.status = "TypeError"
       /\ decoded.status = "ok"
             => /\ decoded.cls \in {"Command", "Event"}
                /\ decoded.data[1] = PacketType(decoded.cls)
                /\ decoded.pkt.cls = decoded.cls
       /\ (decoded.cls \in {"Command", "Event"}
            /\ decoded.data[1] = PacketType(decoded.cls))
             => decoded.status = "ok"
       /\ decoded.cls = "Packet" => decoded.status \notin {"ok", "none"}

\* Command.from_data was handed an event frame and raised TypeError
TypeKindMismatchWitness ==
    /\ decoded.cls = "Command"
    /\ decoded.data = <<4, 14, 1, 0>>
    /\ decoded.status = "TypeError"

(***************************************************************************)
(* Further properties of the session.                                      *)
(***************************************************************************)
\* C12: a call of a command builder can be made in every state of the
\* session that has inputs left, and the step that makes one (discovery()
\* by the caller, init_device() by start()) adds exactly one command, at the
\* tail of the queue, and leaves alive, reader_alive and the commands queued
\* before it as they were
EnqueueAlwaysSucceeds ==
    /\ [](budget > 0 => ENABLED Enqueue)
    /\ [][packets' # packets
             => /\ Len(packets') = Len(packets) + 1
                /\ SubSeq(packets', 1, Len(packets)) = packets
                /\ packets'[Len(packets')].cls = "Command"
                /\ packet_queue' = Append(packet_queue, Len(packets'))
                /\ alive' = alive
                /\ reader_alive' = reader_alive]_vars

\* the session was started and both its threads have ended, one of them on
\* a fault of the transport, and a discovery command put after
\* init_device() is in the queue behind it
EnqueueAlwaysSucceedsWitness ==
    /\ starts = 1
    /\ ~alive
    /\ readers[1].pc = "done"
    /\ writers[1].pc = "done"
    /\ readers[1].exc = "SerialException"
    /\ Len(packets) = 3
    /\ packets[2] = init_device
    /\ packet_queue = <<2, 3>>

\* C13: a step that clears alive is stop() (no thread moves) or a step in
\* which a read or a write of the transport raises serial.SerialException
AliveClearedByStopOrFault ==
    [][(alive /\ ~alive')
          => \/ readers' = readers /\ writers' = writers
             \/ \E t \in Threads :
                   \/ /\ readers[t].exc = "none"
                      /\ readers'[t].exc = "SerialException"
                   \/ /\ writers[t].exc = "none"
                      /\ writers'[t].exc = "SerialException"]_vars

\* C14: the step of _stop_reader() that clears reader_alive leaves alive and
\* the writer as they were; after it the reader ends; while alive is true
\* the writer has not ended; and unless alive is cleared every command put,
\* before or after, gets written (in put order, by OutboundOrder)
ReaderStopsAlone ==
    /\ [][(reader_alive /\ ~reader_alive')
             => alive' = alive /\ writers' = writers]_vars
    /\ [](/\ starts > 0
          /\ ~reader_alive
          /\ alive
          => /\ writers[starts].pc \notin {"new", "done"}
             /\ \A i, j \in 1..Len(written) :
                   i < j => written[i].packet < written[j].packet)
    /\ (starts > 0 /\ ~reader_alive)
          ~> /\ readers[1].pc = "done"
             /\ ~alive \/ Len(written) = Len(packets)

\* _stop_reader() has returned: the reader ended without raising, alive is
\* true, the writer is in its loop and has written the two commands put
ReaderStopsAloneWitness ==
    /\ starts = 1
    /\ ownerPc = "idle"
    /\ ~reader_alive
    /\ alive
    /\ readers[1].pc = "done"
    /\ readers[1].exc = "none"
    /\ writers[1].pc \in {"check", "get"}
    /\ Len(packets) = 2
    /\ Len(written) = 2

\* the reader r takes the step that ends a unit of input: a stray leading
\* byte, or an event frame all of whose params_len bytes were read
UnitEnds(r) ==
    \/ /\ readers[r].pc = "read1"
       /\ consumed' # consumed
       /\ readers'[r].kind # PacketType("Event")
    \/ FrameRead(r) /\ Len(readers'[r].params) = readers[r].len

\* C15: the step that ends a unit of input prints exactly one line, and the
\* lines printed before stay as they are, in their order
NoSilentDrops ==
    [][/\ \A r \in Threads :
             UnitEnds(r) => Len(notes') = Len(notes) + 1
       /\ Len(notes') >= Len(notes)
       /\ SubSeq(notes', 1, Len(notes)) = notes]_vars

\* the reader r takes the step that ends an event frame cut short by a
\* timeout: serial.read(2) gave fewer than 2 bytes, or serial.read(params_len)
\* gave fewer than params_len bytes, or the frame is an LE meta event with
\* params_len 0; no read of that step raised
TruncatedFrameEnds(r) ==
    /\ readers'[r].exc # "SerialException"
    /\ \/ readers[r].pc = "header" /\ readers'[r].pc \notin {"header", "params"}
       \/ /\ FrameRead(r)
          /\ \/ Len(readers'[r].params) < readers[r].len
             \/ readers[r].code = 62 /\ readers[r].len = 0

\* C16: the step that ends a truncated event frame leaves the reader in its
\* loop, without an exception
TruncatedFrameContinues ==
    [][\A r \in Threads :
          TruncatedFrameEnds(r)
          => readers'[r].pc = "check" /\ readers'[r].exc = "none"]_vars

\* C17: a get of the writer that finds the queue empty and a read of the
\* reader that returns nothing leave alive, the queue and the transport as
\* they were and take the thread back to the test of its loop; and from
\* every state in which alive is true, either alive is cleared or every
\* command put so far gets written
TimeoutsArePolls ==
    /\ [][\A t \in Threads :
             /\ (/\ writers[t].pc = "get"
                 /\ writers'[t].pc # "get"
                 /\ packet_queue = <<>>)
                   => /\ writers'[t].pc = "check"
                      /\ writers'[t].exc = "none"
                      /\ alive' = alive
                      /\ written' = written
             /\ (/\ readers[t].pc = "read1"
                 /\ readers'[t].pc # "read1"
                 /\ consumed' = consumed
                 /\ readers'[t].exc # "SerialException")
                   => /\ readers'[t].pc = "check"
                      /\ readers'[t].exc = "none"
                      /\ alive' = alive
                      /\ notes' = notes]_vars
    /\ alive ~> (\/ ~alive
                 \/ /\ packet_queue = <<>>
                    /\ \A i \in 1..Len(packets) :
                          \E k \in 1..Len(written) : written[k].packet = i)

\* every command put was written and no input is left: the writer is in a
\* get that will time out, the reader in a read that will return nothing
TimeoutsArePollsWitness ==
    /\ alive
    /\ budget = 0
    /\ packet_queue = <<>>
    /\ writers[1].pc = "get"
    /\ readers[1].pc = "read1"
    /\ Len(packets) = 2
    /\ Len(written) = 2

\* the number of init_device commands (opcode 0xfe00) among the first n
\* commands put
RECURSIVE InitCommands(_)
InitCommands(n) ==
    IF n = 0 THEN 0
    ELSE InitCommands(n - 1) + (IF packets[n].code = 65024 THEN 1 ELSE 0)

\* C18: start() first sets alive and reader_alive and starts one reader,
\* then starts one writer, both without putting a command, and then puts
\* one init_device command at the tail of the queue; so one init_device
\* command was put for each start() that returned, none while a start() is
\* before its last step, and when an init_device command is written all the
\* commands put before it were written before it
StartThenInit ==
    /\ [](/\ InitCommands(Len(packets))
               = IF ownerPc \in {"start_writer", "start_init"}
                 THEN starts - 1 ELSE starts
          /\ \A k \in 1..Len(written) :
                packets[written[k].packet].code = 65024
                => \A i \in 1..(written[k].packet - 1) :
                      \E m \in 1..(k - 1) : written[m].packet = i)
    /\ [][/\ (ownerPc = "idle" /\ ownerPc' = "start_writer")
                => /\ alive'
                   /\ reader_alive'
                   /\ starts' = starts + 1
                   /\ readers[starts'].pc = "new"
                   /\ readers'[starts'].pc = "check"
                   /\ \A t \in Threads \ {starts'} : readers'[t] = readers[t]
                   /\ writers' = writers
                   /\ packets' = packets
                   /\ packet_queue' = packet_queue
          /\ (ownerPc = "start_writer" /\ ownerPc' # ownerPc)
                => /\ ownerPc' = "start_init"
                   /\ writers[starts].pc = "new"
                   /\ writers'[starts].pc = "check"
                   /\ \A t \in Threads \ {starts} : writers'[t] = writers[t]
                   /\ readers' = readers
                   /\ packets' = packets
                   /\ packet_queue' = packet_queue
          /\ (ownerPc = "start_init" /\ ownerPc' # ownerPc)
                => /\ ownerPc' = "idle"
                   /\ packets' = Append(packets, init_device)
                   /\ init_device.code = 65024
                   /\ packet_queue' = Append(packet_queue, Len(packets'))]_vars

\* two commands put before start() were written, and then the init_device
\* command of start()
StartThenInitWitness ==
    /\ Len(written) = 3
    /\ packets[3] = init_device
    /\ \A k \in 1..3 : written[k].packet = k

\* a thread that was started and has not ended
Running(thread) == thread.pc \notin {"new", "done"}

\* C19: at most one reader thread and at most one writer thread are running
OneReaderOneWriter ==
    /\ Cardinality({t \in Threads : Running(readers[t])}) <= 1
    /\ Cardinality({t \in Threads : Running(writers[t])}) <= 1

\* C20: once alive is cleared on a started session it stays cleared; a
\* writer that tests its loop then ends, and a write made then takes the
\* writer to that test, so that at most one command (the one of the
\* iteration in progress) is written after stop(); and once the writer has
\* ended nothing more is written and no command leaves the queue
StopDoesNotDrain ==
    [][(starts > 0 /\ ~alive)
          => /\ ~alive'
             /\ \A w \in Threads :
                   /\ (writers[w].pc = "check" /\ writers'[w] # writers[w])
                         => writers'[w].pc = "done"
                   /\ (writers[w].pc = "write" /\ written' # written)
                         => /\ writers'[w].pc = "check"
                            /\ Len(written') = Len(written) + 1
                   /\ (writers[w].pc = "get" /\ writers'[w] # writers[w])
                         => writers'[w].pc \in {"write", "check"}
             /\ (ownerPc # "start_writer"
                 /\ \A w \in Threads : ~Running(writers[w]))
                   => /\ written' = written
                      /\ Len(packet_queue') >= Len(packet_queue)
                      /\ SubSeq(packet_queue', 1, Len(packet_queue))
                            = packet_queue]_vars

\* stop() was called after one command was written (no thread raised): the
\* writer has ended and two commands are left in the queue
StopDoesNotDrainWitness ==
    /\ starts = 1
    /\ ~alive
    /\ ownerPc = "idle"
    /\ \A t \in Threads : readers[t].exc = "none" /\ writers[t].exc = "none"
    /\ writers[1].pc = "done"
    /\ Len(written) = 1
    /\ packet_queue = <<2, 3>>

=============================================================================
